---------------------------- MODULE Spec2Model ----------------------------
(***************************************************************************)
(* A model of chaoswm: the Wiremock driver (src/chaoswm/driver.py) and the *)
(* chaostoolkit actions built on it (src/chaoswm/actions.py).              *)
(*                                                                         *)
(* JSON / Python values are tagged records [t, v], so that values of       *)
(* different Python types are comparable and never equal:                  *)
(*   Str(s)   a str            Num(n)  an int        None   None / null    *)
(*   Map(d)   a dict, d a function from its keys to values                 *)
(*   List(s)  a list, s a sequence of values                               *)
(*   Bool(b)  a bool           Raise(e) an exception of class e escaping   *)
(* A Python dict that is a parameter (a node, a filter, a mapping) is the  *)
(* bare function d; Map(d) is the same dict as a value inside another.     *)
(***************************************************************************)
EXTENDS Integers, Sequences, FiniteSets, TLC

VARIABLES
    server,   \* the mappings held by the Wiremock server, in listing order
    before,   \* the server's mappings when the current operation started
    op,       \* the operation called and its arguments ([name |-> "idle"] before)
    result,   \* what the operation returned, or the exception it raised
    http,     \* the HTTP calls the operation issued, in order
    fnode,    \* predicate check: the node handed to the filter predicate
    ffilter,  \* predicate check: the filter
    forder,   \* predicate check: the iteration order of dict keys
    fcall,    \* predicate check: the function applied ([fn |-> "none"] before)
    fout      \* predicate check: its outcome

vars == <<server, before, op, result, http, fnode, ffilter, forder, fcall, fout>>
mainVars == <<server, before, op, result, http>>
filterVars == <<fnode, ffilter, forder, fcall, fout>>

(***************************************************************************)
(* Bounds of the model.                                                    *)
(***************************************************************************)
MaxMappings == 2   \* mappings on the server
MaxFilters == 2    \* filters in one call's filter list
MaxDepth == 1      \* nesting depth of the values inside a node or a filter

(***************************************************************************)
(* Values.                                                                 *)
(***************************************************************************)
Str(s) == [t |-> "str", v |-> s]
Num(n) == [t |-> "num", v |-> n]
None == [t |-> "null", v |-> "null"]
Map(d) == [t |-> "map", v |-> d]
List(s) == [t |-> "list", v |-> s]
Bool(b) == [t |-> "bool", v |-> b]
Raise(e) == [t |-> "raise", v |-> e]

EmptyDict == [k \in {} |-> None]

\* All dicts with keys among `keys` and values among `vals`.
Dicts(keys, vals) == UNION {[S -> vals] : S \in SUBSET keys}

\* d with key k removed (del d[k]); d itself when k is not a key.
DelKey(d, k) == [x \in (DOMAIN d) \ {k} |-> d[x]]

\* d with d[k] = val (key added when absent).
SetKey(d, k, val) == [x \in (DOMAIN d) \cup {k} |-> IF x = k THEN val ELSE d[x]]

\* The keys of dict d in iteration order, when keys iterate in the order `ord`.
KeysInOrder(d, ord) == SelectSeq(ord, LAMBDA k : k \in DOMAIN d)

\* x in lst (Python's membership test on a list: equality with an element).
InList(x, lst) == \E i \in 1..Len(lst) : lst[i] = x

(***************************************************************************)
(* Wiremock.strict_filter and Wiremock.recursive_filter.                   *)
(***************************************************************************)
RECURSIVE strict_loop(_, _, _)
strict_loop(node, _filter, keys) ==
    IF keys = <<>> THEN TRUE
    ELSE LET f == _filter[Head(keys)]
             comp == node[Head(keys)]
         IN IF f # comp THEN FALSE
            ELSE strict_loop(node, _filter, Tail(keys))

strict_filter_len_mutant(node, _filter, ord) ==
    LET intersec == (DOMAIN node) \cap (DOMAIN _filter)
    IN IF Cardinality(intersec) # Cardinality(DOMAIN node) THEN FALSE
       ELSE strict_loop(node, _filter, KeysInOrder(_filter, ord))

strict_filter(node, _filter, ord) ==
    LET intersec == (DOMAIN node) \cap (DOMAIN _filter)
    IN IF Cardinality(intersec) # Cardinality(DOMAIN _filter) THEN FALSE
       ELSE strict_loop(node, _filter, KeysInOrder(_filter, ord))

\* recursive_filter's outcome: Bool(TRUE), Bool(FALSE), or the AttributeError
\* raised by node.keys() when node is not a dict.  `node` and `_filter` are
\* values here (Map(d) for a dict), since the recursion hands on node.get(key).
RECURSIVE recursive_filter(_, _, _)
RECURSIVE recursive_loop(_, _, _, _)
recursive_loop(node, _filter, keys, ord) ==
    IF keys = <<>> THEN Bool(TRUE)
    ELSE LET f == _filter[Head(keys)]
             comp == node[Head(keys)]
             rest == recursive_loop(node, _filter, Tail(keys), ord)
         IN IF f.t = "map"
            THEN LET sub == recursive_filter(comp, f, ord)
                 IN IF sub.t = "raise" THEN sub
                    ELSE IF ~sub.v THEN Bool(FALSE)
                    ELSE rest
            ELSE IF f.t = "list"
            THEN IF ~InList(comp, f.v) THEN Bool(FALSE) ELSE rest
            ELSE IF f # comp THEN Bool(FALSE)
            ELSE rest

recursive_filter(node, _filter, ord) ==
    IF node.t # "map" THEN Raise("AttributeError")
    ELSE LET intersec == (DOMAIN node.v) \cap (DOMAIN _filter.v)
         IN IF Cardinality(intersec) # Cardinality(DOMAIN _filter.v)
            THEN Bool(FALSE)
            ELSE recursive_loop(node.v, _filter.v, KeysInOrder(_filter.v, ord), ord)

(***************************************************************************)
(* Wiremock.filter_mappings, over the listing `mappings` that              *)
(* Wiremock.mappings() fetched.  A mapping is the dict                     *)
(* [id |-> Num(i), request |-> Map(..), response |-> Map(..)].             *)
(***************************************************************************)
RECURSIVE filter_loop(_, _, _, _, _, _, _)
filter_loop(mappings, _filter, strict, limit, ord, matching_mappings, count) ==
    IF mappings = <<>> THEN List(matching_mappings)
    ELSE LET mapping == Head(mappings)
             matches ==
                 IF strict
                 THEN IF "request" \in DOMAIN mapping /\ mapping["request"].t = "map"
                      THEN Bool(strict_filter(mapping["request"].v, _filter, ord))
                      ELSE Raise("AttributeError")
                 ELSE recursive_filter(Map(mapping), Map(_filter), ord)
         IN IF matches.t = "raise" THEN matches
            ELSE LET matching2 == IF matches.v
                                  THEN Append(matching_mappings, Map(mapping))
                                  ELSE matching_mappings
                     count2 == IF matches.v THEN count + 1 ELSE count
                 IN IF limit > 0 /\ count2 >= limit
                    THEN List(matching2)
                    ELSE filter_loop(Tail(mappings), _filter, strict, limit, ord,
                                     matching2, count2)

filter_mappings(mappings, _filter, strict, limit, ord) ==
    filter_loop(mappings, _filter, strict, limit, ord, <<>>, 0)

\* Wiremock.filter_mapping: matching_mappings[1] is the SECOND element of the
\* list (indices start at 0), and the list was collected with limit=1.
filter_mapping(mappings, _filter, strict, ord) ==
    LET matching_mappings == filter_mappings(mappings, _filter, strict, 1, ord)
    IN IF matching_mappings.t = "raise" THEN matching_mappings
       ELSE IF Len(matching_mappings.v) > 0
       THEN IF Len(matching_mappings.v) >= 2 THEN matching_mappings.v[2]
            ELSE Raise("IndexError")
       ELSE None

(***************************************************************************)
(* The inputs of the predicate check: nodes and filters with scalar, list  *)
(* and nested-dict values, nested to MaxDepth.                             *)
(***************************************************************************)
TopKeys == {"method", "headers"}
InnerKeys == {"a"}
Scalars == {Str("GET"), Str("POST")}
Lists == {List(<<Str("GET"), Str("POST")>>)}

RECURSIVE Values(_)
Values(d) ==
    IF d = 0 THEN Scalars \cup Lists
    ELSE Scalars \cup Lists \cup {Map(f) : f \in Dicts(InnerKeys, Values(d - 1))}

Nodes == Dicts(TopKeys, Values(MaxDepth))
Filters == Dicts(TopKeys, Values(MaxDepth))
Orders == {<<"request", "method", "headers", "a">>,
           <<"request", "headers", "method", "a">>}

\* The listing the predicate check resolves filters against: one mapping whose
\* request block is the node, followed by one with a fixed request block.
MappingOf(id, request, response) ==
    [id |-> Num(id), request |-> Map(request), response |-> Map(response)]

FilterListing(node) ==
    <<MappingOf(1, node, [status |-> Num(200)]),
      MappingOf(2, [method |-> Str("GET")], [status |-> Num(200)])>>

IdleOp == [name |-> "idle"]
NoCall == [fn |-> "none", strict |-> FALSE, limit |-> 0, wrap |-> FALSE]

MainIdle ==
    /\ server = <<>>
    /\ before = <<>>
    /\ op = IdleOp
    /\ result = None
    /\ http = <<>>

InitFilter ==
    /\ fnode \in Nodes
    /\ ffilter \in Filters
    /\ forder \in Orders
    /\ fcall = NoCall
    /\ fout = None
    /\ MainIdle

StrictFilterCall ==
    /\ fcall.fn = "none"
    /\ fcall' = [NoCall EXCEPT !.fn = "strict_filter"]
    /\ fout' = Bool(strict_filter(fnode, ffilter, forder))
    /\ UNCHANGED <<fnode, ffilter, forder>>
    /\ UNCHANGED mainVars

RecursiveFilterCall ==
    /\ fcall.fn = "none"
    /\ fcall' = [NoCall EXCEPT !.fn = "recursive_filter"]
    /\ fout' = recursive_filter(Map(fnode), Map(ffilter), forder)
    /\ UNCHANGED <<fnode, ffilter, forder>>
    /\ UNCHANGED mainVars

\* filter_mappings(_filter, strict, limit) against FilterListing(fnode); with
\* `wrap` the filter is {"request": ffilter}, which is how a non-strict filter
\* reaches a mapping's request block.
FilterMappingsCall ==
    /\ fcall.fn = "none"
    /\ \E strict \in BOOLEAN, limit \in {0, 1}, wrap \in BOOLEAN :
          /\ fcall' = [fn |-> "filter_mappings", strict |-> strict,
                       limit |-> limit, wrap |-> wrap]
          /\ fout' = filter_mappings(FilterListing(fnode),
                                     IF wrap THEN [request |-> Map(ffilter)]
                                             ELSE ffilter,
                                     strict, limit, forder)
    /\ UNCHANGED <<fnode, ffilter, forder>>
    /\ UNCHANGED mainVars

\* filter_mapping(_filter, strict) against FilterListing(fnode).
FilterMappingCall ==
    /\ fcall.fn = "none"
    /\ \E strict \in BOOLEAN, wrap \in BOOLEAN :
          /\ fcall' = [fn |-> "filter_mapping", strict |-> strict,
                       limit |-> 1, wrap |-> wrap]
          /\ fout' = filter_mapping(FilterListing(fnode),
                                    IF wrap THEN [request |-> Map(ffilter)]
                                            ELSE ffilter,
                                    strict, forder)
    /\ UNCHANGED <<fnode, ffilter, forder>>
    /\ UNCHANGED mainVars

NextFilter ==
    \/ StrictFilterCall
    \/ RecursiveFilterCall
    \/ FilterMappingsCall
    \/ FilterMappingCall

SpecFilter == InitFilter /\ [][NextFilter]_vars

(***************************************************************************)
(* C1.  Strict filtering: strict_filter(m.request, f) holds if and only if *)
(* every key of f is a key of m.request and m.request's value under it is  *)
(* deep-equal to f's; so strict filter resolution (filter_mappings, strict,*)
(* no limit) returns exactly the listed mappings of whose request block f  *)
(* is a sub-mapping.                                                       *)
(***************************************************************************)
SubMapping(f, request) ==
    \A k \in DOMAIN f : k \in DOMAIN request /\ request[k] = f[k]

C1_StrictFilter ==
    /\ fcall.fn = "strict_filter" => fout = Bool(SubMapping(ffilter, fnode))
    /\ (fcall.fn = "filter_mappings" /\ fcall.strict /\ fcall.limit = 0 /\ ~fcall.wrap)
          => /\ fout.t = "list"
             /\ LET listing == FilterListing(fnode)
                IN \A i \in 1..Len(listing) :
                      InList(Map(listing[i]), fout.v)
                          <=> SubMapping(ffilter, listing[i]["request"].v)

\* A proper sub-mapping with a nested value matched; and a filter turned away
\* on a differing value although its keys are all present.
C1_Witness ==
    /\ fcall.fn = "strict_filter"
    /\ fout = Bool(TRUE)
    /\ DOMAIN ffilter # {}
    /\ DOMAIN ffilter # DOMAIN fnode
    /\ \E k \in DOMAIN ffilter : ffilter[k].t = "map" /\ DOMAIN ffilter[k].v # {}

(***************************************************************************)
(* C2.  Recursive filtering: recursive_filter(node, filter) returns true   *)
(* if and only if the filter's keys are keys of the node and, per key, a   *)
(* nested-mapping filter value is satisfied recursively by a node value    *)
(* that is a mapping (false, not an error, when it is not a mapping), a    *)
(* sequence filter value contains the node's value, and any other filter   *)
(* value equals the node's value.                                          *)
(***************************************************************************)
RECURSIVE RecursiveHolds(_, _)
RecursiveHolds(node, f) ==
    /\ DOMAIN f \subseteq DOMAIN node
    /\ \A k \in DOMAIN f :
          IF f[k].t = "map"
          THEN node[k].t = "map" /\ RecursiveHolds(node[k].v, f[k].v)
          ELSE IF f[k].t = "list" THEN InList(node[k], f[k].v)
          ELSE node[k] = f[k]

C2_RecursiveFilter ==
    fcall.fn = "recursive_filter" => fout = Bool(RecursiveHolds(fnode, ffilter))

\* Where recursive_filter does return, it returns what C2 says; it raises only
\* where C2 says false.
C2_RecursiveFilterWhereItReturns ==
    fcall.fn = "recursive_filter"
        => IF fout.t = "raise" THEN ~RecursiveHolds(fnode, ffilter)
           ELSE fout = Bool(RecursiveHolds(fnode, ffilter))

(***************************************************************************)
(* The driver against the server.  An operation threads a record           *)
(* st = [server, http]: the server's mappings and the HTTP calls issued so *)
(* far.  A driver method yields [st |-> the state after it, ret |-> what   *)
(* it returned or raised].  `oks` lists, per write call in the order       *)
(* issued, whether the server answers it with the success status.  The     *)
(* server stores the mapping a successful PUT carries as sent (a key sent  *)
(* as null stays in the stored dict with the value None); the listing GET  *)
(* is answered with status 200.                                            *)
(***************************************************************************)
AVAILABLE_FAULTS ==
    {"EMPTY_RESPONSE", "MALFORMED_RESPONSE_CHUNK", "RANDOM_DATA_THEN_CLOSE",
     "CONNECTION_RESET_BY_PEER"}

\* The methods class Wiremock defines; looking up any other name on a
\* Wiremock object raises AttributeError.
WiremockMethods ==
    {"mappings", "mapping_by_id", "filter_mapping", "filter_mappings",
     "strict_filter", "recursive_filter", "mapping_by_request_exact_match",
     "populate", "populate_from_dir", "update_fault",
     "update_status_code_and_body", "update_mapping", "add_mapping",
     "delete_mapping", "delete_all_mappings", "fixed_delay",
     "global_fixed_delay", "random_delay", "global_random_delay",
     "chunked_dribble_delay", "up", "reset", "reset_mappings"}

MinStatus == 100
MaxStatus == 599

Call(verb, id, ok) == [verb |-> verb, id |-> id, ok |-> ok]
Ret(st, ret) == [st |-> st, ret |-> ret]

NumWrites(calls) == Len(SelectSeq(calls, LAMBDA c : c.verb # "GET"))

\* Python truthiness of a value.
Truthy(x) ==
    /\ x.t # "null"
    /\ ~(x.t = "str" /\ Len(x.v) = 0)
    /\ ~(x.t = "num" /\ x.v = 0)
    /\ ~(x.t = "list" /\ Len(x.v) = 0)
    /\ ~(x.t = "map" /\ DOMAIN x.v = {})
    /\ ~(x.t = "bool" /\ ~x.v)

\* mapping["response"][key] = val
SetResponse(mapping, key, val) ==
    [mapping EXCEPT !["response"] = Map(SetKey(@.v, key, val))]

\* if key in mapping["response"]: del mapping["response"][key]
DelResponse(mapping, key) ==
    [mapping EXCEPT !["response"] = Map(DelKey(@.v, key))]

mappings(st) ==
    Ret([st EXCEPT !.http = Append(@, Call("GET", None, TRUE))], st.server)

update_mapping_novalue_mutant(st, id, mapping, oks) ==
    LET ok == oks[NumWrites(st.http) + 1]
                 /\ \E i \in 1..Len(st.server) : st.server[i]["id"] = id
    IN Ret([server |-> st.server, http |-> Append(st.http, Call("PUT", id, ok))],
           IF ok THEN Map(mapping) ELSE None)

update_mapping(st, id, mapping, oks) ==
    LET ok == oks[NumWrites(st.http) + 1]
                 /\ \E i \in 1..Len(st.server) : st.server[i]["id"] = id
    IN Ret([server |-> IF ok
                       THEN [i \in 1..Len(st.server) |->
                                IF st.server[i]["id"] = id THEN mapping
                                ELSE st.server[i]]
                       ELSE st.server,
            http |-> Append(st.http, Call("PUT", id, ok))],
           IF ok THEN Map(mapping) ELSE None)

delete_mapping(st, id, oks) ==
    LET ok == oks[NumWrites(st.http) + 1]
                 /\ \E i \in 1..Len(st.server) : st.server[i]["id"] = id
    IN Ret([server |-> IF ok
                       THEN SelectSeq(st.server, LAMBDA m : m["id"] # id)
                       ELSE st.server,
            http |-> Append(st.http, Call("DELETE", id, ok))],
           IF ok THEN id ELSE Num(-1))

\* The id the server gives a created mapping: one no listed mapping has.
FreshId(listing) ==
    LET ids == {listing[i]["id"].v : i \in 1..Len(listing)}
    IN Num(IF ids = {} THEN 1
           ELSE 1 + CHOOSE m \in ids : \A x \in ids : x <= m)

\* Wiremock.add_mapping: POST; the id of the created mapping, or None.
add_mapping(st, mapping, oks) ==
    LET ok == oks[NumWrites(st.http) + 1]
        id == FreshId(st.server)
    IN Ret([server |-> IF ok THEN Append(st.server, SetKey(mapping, "id", id))
                       ELSE st.server,
            http |-> Append(st.http, Call("POST", IF ok THEN id ELSE None, ok))],
           IF ok THEN id ELSE None)

\* Wiremock.populate; `mappings_to_add` is the value handed in, a list or not.
RECURSIVE populate_loop(_, _, _, _)
populate_loop(st, mappings_to_add, ids, oks) ==
    IF mappings_to_add = <<>> THEN Ret(st, List(ids))
    ELSE LET added == add_mapping(st, Head(mappings_to_add), oks)
         IN IF added.ret # None
            THEN populate_loop(added.st, Tail(mappings_to_add),
                               Append(ids, added.ret), oks)
            ELSE Ret(added.st, None)

populate(st, mappings_to_add, oks) ==
    IF mappings_to_add.t # "list" THEN Ret(st, None)
    ELSE populate_loop(st, mappings_to_add.v, <<>>, oks)

RECURSIVE first_match(_, _)
first_match(listing, request) ==
    IF listing = <<>> THEN None
    ELSE IF Head(listing)["request"] = request THEN Map(Head(listing))
    ELSE first_match(Tail(listing), request)

\* `request` is the value handed in (Map(f) for a dict f).
mapping_by_request_exact_match(st, request) ==
    LET fetched == mappings(st)
    IN Ret(fetched.st, first_match(fetched.ret, request))

\* A method of the driver looked up by name and called with one argument, as
\* actions.py does: an undefined name raises AttributeError before any call.
CallDriver(st, method, arg) ==
    IF method \notin WiremockMethods THEN Ret(st, Raise("AttributeError"))
    ELSE IF method = "mapping_by_request_exact_match"
    THEN mapping_by_request_exact_match(st, arg)
    ELSE LET fetched == mappings(st)
         IN Ret(fetched.st, List([i \in 1..Len(fetched.ret) |-> Map(fetched.ret[i])]))

(***************************************************************************)
(* int(status_code): a str is kept as its sequence of characters.          *)
(***************************************************************************)
DigitValue ==
    ("0" :> 0) @@ ("1" :> 1) @@ ("2" :> 2) @@ ("3" :> 3) @@ ("4" :> 4) @@
    ("5" :> 5) @@ ("6" :> 6) @@ ("7" :> 7) @@ ("8" :> 8) @@ ("9" :> 9)

RECURSIVE ParseDigits(_, _)
ParseDigits(cs, acc) ==
    IF cs = <<>> THEN acc
    ELSE ParseDigits(Tail(cs), 10 * acc + DigitValue[Head(cs)])

int(x) ==
    IF x.t = "num" THEN Num(x.v)
    ELSE IF x.t = "str"
    THEN IF Len(x.v) > 0 /\ \A i \in 1..Len(x.v) : x.v[i] \in DOMAIN DigitValue
         THEN Num(ParseDigits(x.v, 0))
         ELSE Raise("ValueError")
    ELSE Raise("TypeError")

\* The test of update_status_code_and_body's try block: TRUE when it returns
\* None for an incorrect http status code.
status_code_rejected(status_code) ==
    LET status_code_number == int(status_code)
    IN IF status_code_number.t = "raise" THEN TRUE
       ELSE status_code_number.v < MinStatus \/ status_code_number.v > MaxStatus

(***************************************************************************)
(* Wiremock.update_fault                                                   *)
(***************************************************************************)
RECURSIVE update_fault_loop_continue_mutant(_, _, _, _, _)
update_fault_loop_continue_mutant(st, mappings_to_update, fault, ids, oks) ==
    IF mappings_to_update = <<>> THEN Ret(st, List(ids))
    ELSE LET id == Head(mappings_to_update)["id"]
             mapping == SetResponse(Head(mappings_to_update), "fault", Str(fault))
             written == update_mapping(st, id, mapping, oks)
         IN update_fault_loop_continue_mutant(
                written.st, Tail(mappings_to_update), fault,
                IF Truthy(written.ret) THEN Append(ids, id) ELSE ids, oks)

RECURSIVE update_fault_loop(_, _, _, _, _)
update_fault_loop(st, mappings_to_update, fault, ids, oks) ==
    IF mappings_to_update = <<>> THEN Ret(st, List(ids))
    ELSE LET id == Head(mappings_to_update)["id"]
             mapping == SetResponse(Head(mappings_to_update), "fault", Str(fault))
             written == update_mapping(st, id, mapping, oks)
         IN IF Truthy(written.ret)
            THEN update_fault_loop(written.st, Tail(mappings_to_update), fault,
                                   Append(ids, id), oks)
            ELSE Ret(written.st, None)

update_fault(st, mappings_to_update, fault, oks) ==
    IF fault \notin AVAILABLE_FAULTS THEN Ret(st, None)
    ELSE update_fault_loop(st, mappings_to_update, fault, <<>>, oks)

(***************************************************************************)
(* Wiremock.update_status_code_and_body                                    *)
(***************************************************************************)
\* The loop body's changes to one mapping.
set_status_and_body_keepfile_mutant(mapping, status_code, body, body_file_name) ==
    LET m1 == SetResponse(mapping, "status", status_code)
    IN IF Truthy(body_file_name)
       THEN SetResponse(SetResponse(m1, "bodyFileName", body_file_name), "body", None)
       ELSE IF Truthy(body)
       THEN SetResponse(m1, "body", body)
       ELSE m1

set_status_and_body(mapping, status_code, body, body_file_name) ==
    LET m1 == SetResponse(mapping, "status", status_code)
    IN IF Truthy(body_file_name)
       THEN SetResponse(SetResponse(m1, "bodyFileName", body_file_name), "body", None)
       ELSE IF Truthy(body)
       THEN SetResponse(SetResponse(m1, "bodyFileName", None), "body", body)
       ELSE m1

RECURSIVE update_status_loop(_, _, _, _, _, _, _)
update_status_loop(st, mappings_to_update, status_code, body, body_file_name, ids, oks) ==
    IF mappings_to_update = <<>> THEN Ret(st, List(ids))
    ELSE LET id == Head(mappings_to_update)["id"]
             mapping == set_status_and_body(Head(mappings_to_update), status_code,
                                            body, body_file_name)
             written == update_mapping(st, id, mapping, oks)
         IN IF Truthy(written.ret)
            THEN update_status_loop(written.st, Tail(mappings_to_update), status_code,
                                    body, body_file_name, Append(ids, id), oks)
            ELSE Ret(written.st, None)

update_status_code_and_body_unchecked_mutant(st, mappings_to_update, status_code, body, body_file_name, oks) ==
    update_status_loop(st, mappings_to_update, status_code, body, body_file_name,
                       <<>>, oks)

update_status_code_and_body(st, mappings_to_update, status_code, body, body_file_name, oks) ==
    IF status_code_rejected(status_code) THEN Ret(st, None)
    ELSE update_status_loop(st, mappings_to_update, status_code, body,
                            body_file_name, <<>>, oks)

(***************************************************************************)
(* Wiremock.fixed_delay                                                    *)
(***************************************************************************)
RECURSIVE fixed_delay_loop(_, _, _, _, _)
fixed_delay_loop(st, mappings_to_update, fixedDelayMilliseconds, updated_ids, oks) ==
    IF mappings_to_update = <<>> THEN Ret(st, List(updated_ids))
    ELSE LET m == SetResponse(SetResponse(Head(mappings_to_update),
                                          "fixedDelayMilliseconds",
                                          fixedDelayMilliseconds),
                              "delayDistribution", None)
             written == update_mapping(st, m["id"], m, oks)
         IN fixed_delay_loop(written.st, Tail(mappings_to_update),
                             fixedDelayMilliseconds,
                             IF Truthy(written.ret) THEN Append(updated_ids, m["id"])
                             ELSE updated_ids,
                             oks)

driver_fixed_delay(st, mappings_to_update, fixedDelayMilliseconds, oks) ==
    fixed_delay_loop(st, mappings_to_update, fixedDelayMilliseconds, <<>>, oks)

(***************************************************************************)
(* Wiremock.chunked_dribble_delay                                          *)
(***************************************************************************)
\* The two key tests: what they make the method do before it fetches
\* anything: "proceed", return None, or raise ("x" in None is a TypeError).
chunked_spec_check_nototal_mutant(chunkedDribbleDelay) ==
    IF chunkedDribbleDelay.t # "map" THEN Raise("TypeError")
    ELSE IF "numberOfChunks" \notin DOMAIN chunkedDribbleDelay.v THEN None
    ELSE Str("proceed")

chunked_spec_check(chunkedDribbleDelay) ==
    IF chunkedDribbleDelay.t # "map" THEN Raise("TypeError")
    ELSE IF "numberOfChunks" \notin DOMAIN chunkedDribbleDelay.v THEN None
    ELSE IF "totalDuration" \notin DOMAIN chunkedDribbleDelay.v THEN None
    ELSE Str("proceed")

driver_chunked_dribble_delay(st, _filter, chunkedDribbleDelay, oks) ==
    LET checked == chunked_spec_check(chunkedDribbleDelay)
    IN IF checked # Str("proceed") THEN Ret(st, checked)
       ELSE LET found == mapping_by_request_exact_match(st, _filter)
            IN IF ~Truthy(found.ret) THEN Ret(found.st, None)
               ELSE LET mapping_found ==
                            SetResponse(found.ret.v, "chunkedDribbleDelay",
                                        chunkedDribbleDelay)
                    IN update_mapping(found.st, mapping_found["id"],
                                      mapping_found, oks)

(***************************************************************************)
(* Wiremock.up                                                             *)
(***************************************************************************)
clear_delays_nochunked_mutant(mapping_found) ==
    DelResponse(DelResponse(mapping_found, "fixedDelayMilliseconds"),
                "delayDistribution")

clear_delays(mapping_found) ==
    DelResponse(DelResponse(DelResponse(mapping_found, "fixedDelayMilliseconds"),
                            "delayDistribution"),
                "chunkedDribbleDelay")

RECURSIVE up_loop(_, _, _, _)
up_loop(st, filter, ids, oks) ==
    IF filter = <<>> THEN Ret(st, List(ids))
    ELSE LET found == mapping_by_request_exact_match(st, Head(filter))
         IN IF ~Truthy(found.ret)
            THEN up_loop(found.st, Tail(filter), ids, oks)
            ELSE LET mapping_found == clear_delays(found.ret.v)
                     written == update_mapping(found.st, mapping_found["id"],
                                               mapping_found, oks)
                 IN up_loop(written.st, Tail(filter),
                            Append(ids, mapping_found["id"]), oks)

driver_up(st, filter, oks) == up_loop(st, filter, <<>>, oks)

(***************************************************************************)
(* actions.py.  check_configuration (chaoswm/utils.py) is the caller's     *)
(* environment: its answer is the input cfg_ok.                            *)
(***************************************************************************)
EmptyList == List(<<>>)

\* The dicts inside a list of Map values.
Unwrap(lst) == [i \in 1..Len(lst) |-> lst[i].v]

_filter_mappings(st, f) ==
    IF "request" \in DOMAIN f /\ "metadata" \in DOMAIN f
    THEN Ret(st, Raise("ValueError"))
    ELSE IF "request" \in DOMAIN f
    THEN CallDriver(st, "mappings_by_request", f["request"])
    ELSE IF "metadata" \in DOMAIN f
    THEN CallDriver(st, "mappings_by_metadata", f["metadata"])
    ELSE CallDriver(st, "mappings_by_request", Map(f))

\* The loop of fixed_delay and of update_mappings_fault that resolves every
\* filter and extends mappings_to_update with what it found.
RECURSIVE resolve_filters(_, _, _)
resolve_filters(st, filter, mappings_to_update) ==
    IF filter = <<>> THEN Ret(st, List(mappings_to_update))
    ELSE LET found == _filter_mappings(st, Head(filter))
         IN IF found.ret.t = "raise" THEN found
            ELSE resolve_filters(found.st, Tail(filter),
                                 IF Truthy(found.ret)
                                 THEN mappings_to_update \o found.ret.v
                                 ELSE mappings_to_update)

fixed_delay(st, filter, fixedDelayMilliseconds, oks) ==
    LET resolved == resolve_filters(st, filter, <<>>)
    IN IF resolved.ret.t = "raise" THEN resolved
       ELSE IF Len(resolved.ret.v) > 0
       THEN driver_fixed_delay(resolved.st, Unwrap(resolved.ret.v),
                               fixedDelayMilliseconds, oks)
       ELSE Ret(resolved.st, EmptyList)

update_mappings_fault(st, filter, fault, oks) ==
    LET resolved == resolve_filters(st, filter, <<>>)
    IN IF resolved.ret.t = "raise" THEN resolved
       ELSE IF Len(resolved.ret.v) > 0
       THEN update_fault(resolved.st, Unwrap(resolved.ret.v), fault, oks)
       ELSE Ret(resolved.st, EmptyList)

update_all_mappings_status_code_and_body(st, cfg_ok, status_code, body, body_file_name, oks) ==
    IF ~cfg_ok THEN Ret(st, EmptyList)
    ELSE IF ~Truthy(status_code) THEN Ret(st, EmptyList)
    ELSE LET fetched == mappings(st)
         IN IF Len(fetched.ret) > 0
            THEN update_status_code_and_body(fetched.st, fetched.ret, status_code,
                                             body, body_file_name, oks)
            ELSE Ret(fetched.st, EmptyList)

RECURSIVE delete_loop(_, _, _, _)
delete_loop(st, filter, ids, oks) ==
    IF filter = <<>> THEN Ret(st, List(ids))
    ELSE LET found == CallDriver(st, "mapping_by_request", Head(filter))
         IN IF found.ret.t = "raise" THEN found
            ELSE IF found.ret = None
            THEN Ret(found.st, Raise("TypeError"))   \* mapping["request"] on None
            ELSE LET deleted == delete_mapping(found.st, found.ret.v["id"], oks)
                 IN delete_loop(deleted.st, Tail(filter), Append(ids, deleted.ret), oks)

delete_mappings(st, cfg_ok, filter, oks) ==
    IF ~cfg_ok THEN Ret(st, EmptyList)
    ELSE delete_loop(st, filter, <<>>, oks)

\* mappings_to_update starts as None: the first append, and len() after a
\* loop that ran no append, fail on it.
update_mappings_status_code(st, cfg_ok, status_code, filter) ==
    IF ~cfg_ok THEN Ret(st, EmptyList)
    ELSE IF ~Truthy(status_code) THEN Ret(st, EmptyList)
    ELSE IF filter = <<>> THEN Ret(st, Raise("TypeError"))   \* len(None)
    ELSE LET found == CallDriver(st, "mapping_by_request", Head(filter))
         IN IF found.ret.t = "raise" THEN found
            ELSE IF found.ret = None
            THEN Ret(found.st, Raise("TypeError"))   \* mapping["request"] on None
            ELSE Ret(found.st, Raise("AttributeError"))   \* None.append

RECURSIVE chunked_loop(_, _, _, _, _)
chunked_loop(st, filter, chunkedDribbleDelay, updated, oks) ==
    IF filter = <<>> THEN Ret(st, List(updated))
    ELSE LET one == driver_chunked_dribble_delay(st, Head(filter),
                                                 chunkedDribbleDelay, oks)
         IN IF one.ret.t = "raise" THEN one
            ELSE chunked_loop(one.st, Tail(filter), chunkedDribbleDelay,
                              Append(updated, one.ret), oks)

chunked_dribble_delay(st, filter, chunkedDribbleDelay, oks) ==
    chunked_loop(st, filter, chunkedDribbleDelay, <<>>, oks)

up(st, filter, oks) == driver_up(st, filter, oks)

(***************************************************************************)
(* The servers an operation may find, and the arguments of the calls.      *)
(***************************************************************************)
SeqsUpTo(S, n) == UNION {[1..k -> S] : k \in 0..n}

ReqA == [method |-> Str("GET"), url |-> Str("/x")]
ReqB == [method |-> Str("POST"), url |-> Str("/x")]
Requests == {ReqA, ReqB}

GoodSpec == [numberOfChunks |-> Num(5), totalDuration |-> Num(1000)]

RespPlain == [status |-> Num(200)]
RespFull ==
    [status |-> Num(200), body |-> Str("old"),
     fixedDelayMilliseconds |-> Num(500),
     delayDistribution |-> Map([type |-> Str("uniform")]),
     chunkedDribbleDelay |-> Map(GoodSpec)]
RespFile ==
    [status |-> Str(<<"5", "0", "3">>), bodyFileName |-> Str("old.json"),
     delayDistribution |-> None, fault |-> Str("EMPTY_RESPONSE")]
InitResponses == {RespPlain, RespFull, RespFile}

\* Servers of up to MaxMappings mappings, with ids 1, 2, .. in listing order.
InitServers ==
    UNION {{[i \in 1..n |-> MappingOf(i, rq[i], rs[i])] :
               rq \in [1..n -> Requests], rs \in [1..n -> InitResponses]} :
           n \in 0..MaxMappings}

\* Filters matched against a whole request block (up, chunked_dribble_delay,
\* delete_mappings, update_mappings_status_code).
RequestFilters == {Map(ReqA), Map(ReqB), Map([method |-> Str("GET")])}

\* Filter descriptions handed to _filter_mappings.
FilterDescriptions ==
    {ReqA,
     [request |-> Map(ReqA)],
     [metadata |-> Map([tag |-> Str("t")])],
     [request |-> Map(ReqA), metadata |-> Map([tag |-> Str("t")])]}

StatusCodes ==
    {Str(<<>>), Str(<<"9", "9">>), Str(<<"1", "0", "0">>), Str(<<"4", "0", "4">>),
     Str(<<"5", "9", "9">>), Str(<<"7", "0", "0">>), Str(<<"a", "b", "c">>),
     Num(404)}
DriverStatusCodes == {Str(<<"4", "0", "4">>), Str(<<"7", "0", "0">>), None}
Bodies == {None, Str(""), Str("b")}
BodyFileNames == {None, Str("f.json")}
FaultKinds == {"CONNECTION_RESET_BY_PEER", "NOT_A_FAULT"}
ChunkedSpecs ==
    {Map(GoodSpec), Map([numberOfChunks |-> Num(5)]),
     Map([totalDuration |-> Num(1000)]), Map(EmptyDict), None}

\* Whether each write call, in the order issued, is answered with success.
WriteOutcomes(n) == [1..n -> BOOLEAN]

Start == [server |-> server, http |-> <<>>]

\* The operation called as `call` ended as `done`.
Finish(call, done) ==
    /\ op' = call
    /\ server' = done.st.server
    /\ http' = done.st.http
    /\ result' = done.ret
    /\ UNCHANGED before
    /\ UNCHANGED filterVars

InitMain ==
    /\ server \in InitServers
    /\ before = server
    /\ op = IdleOp
    /\ result = None
    /\ http = <<>>
    /\ fnode = EmptyDict
    /\ ffilter = EmptyDict
    /\ forder = <<>>
    /\ fcall = NoCall
    /\ fout = None

UpdateAllMappingsStatusCodeAndBody ==
    /\ op = IdleOp
    /\ \E cfg_ok \in BOOLEAN, status_code \in StatusCodes, body \in Bodies,
          body_file_name \in BodyFileNames, oks \in WriteOutcomes(Len(server)) :
           Finish([name |-> "update_all_mappings_status_code_and_body",
                   cfg_ok |-> cfg_ok, status_code |-> status_code, body |-> body,
                   body_file_name |-> body_file_name],
                  update_all_mappings_status_code_and_body(Start, cfg_ok, status_code,
                                                           body, body_file_name, oks))

UpdateMappingsFault ==
    /\ op = IdleOp
    /\ \E filter \in SeqsUpTo(FilterDescriptions, MaxFilters), fault \in FaultKinds,
          oks \in WriteOutcomes(Len(server)) :
           Finish([name |-> "update_mappings_fault", filter |-> filter, fault |-> fault],
                  update_mappings_fault(Start, filter, fault, oks))

FixedDelay ==
    /\ op = IdleOp
    /\ \E filter \in SeqsUpTo(FilterDescriptions, MaxFilters),
          oks \in WriteOutcomes(Len(server)) :
           Finish([name |-> "fixed_delay", filter |-> filter,
                   fixedDelayMilliseconds |-> Num(300)],
                  fixed_delay(Start, filter, Num(300), oks))

DeleteMappings ==
    /\ op = IdleOp
    /\ \E cfg_ok \in BOOLEAN, filter \in SeqsUpTo(RequestFilters, MaxFilters) :
        \E oks \in WriteOutcomes(Len(filter)) :
           Finish([name |-> "delete_mappings", cfg_ok |-> cfg_ok, filter |-> filter],
                  delete_mappings(Start, cfg_ok, filter, oks))

UpdateMappingsStatusCode ==
    /\ op = IdleOp
    /\ \E cfg_ok \in BOOLEAN, status_code \in {Str(<<>>), Str(<<"4", "0", "4">>)},
          filter \in SeqsUpTo(RequestFilters, MaxFilters) :
           Finish([name |-> "update_mappings_status_code", cfg_ok |-> cfg_ok,
                   status_code |-> status_code, filter |-> filter],
                  update_mappings_status_code(Start, cfg_ok, status_code, filter))

ChunkedDribbleDelay ==
    /\ op = IdleOp
    /\ \E filter \in SeqsUpTo(RequestFilters, MaxFilters),
          chunkedDribbleDelay \in ChunkedSpecs :
        \E oks \in WriteOutcomes(Len(filter)) :
           Finish([name |-> "chunked_dribble_delay", filter |-> filter,
                   chunkedDribbleDelay |-> chunkedDribbleDelay],
                  chunked_dribble_delay(Start, filter, chunkedDribbleDelay, oks))

Up ==
    /\ op = IdleOp
    /\ \E filter \in SeqsUpTo(RequestFilters, MaxFilters) :
        \E oks \in WriteOutcomes(Len(filter)) :
           Finish([name |-> "up", filter |-> filter], up(Start, filter, oks))

\* The driver's methods called directly, on mappings the caller took from the
\* listing (any of them, in listing order).
Selections == {SelectSeq(server, LAMBDA m : m["id"] \in S) :
                  S \in SUBSET {server[i]["id"] : i \in 1..Len(server)}}

DriverUpdateFault ==
    /\ op = IdleOp
    /\ \E mappings_to_update \in Selections, fault \in FaultKinds :
        \E oks \in WriteOutcomes(Len(mappings_to_update)) :
           Finish([name |-> "Wiremock.update_fault",
                   mappings |-> mappings_to_update, fault |-> fault],
                  update_fault(Start, mappings_to_update, fault, oks))

DriverUpdateStatusCodeAndBody ==
    /\ op = IdleOp
    /\ \E mappings_to_update \in Selections, status_code \in DriverStatusCodes,
          body \in Bodies, body_file_name \in BodyFileNames :
        \E oks \in WriteOutcomes(Len(mappings_to_update)) :
           Finish([name |-> "Wiremock.update_status_code_and_body",
                   mappings |-> mappings_to_update, status_code |-> status_code,
                   body |-> body, body_file_name |-> body_file_name],
                  update_status_code_and_body(Start, mappings_to_update, status_code,
                                              body, body_file_name, oks))

DriverFixedDelay ==
    /\ op = IdleOp
    /\ \E mappings_to_update \in Selections :
        \E oks \in WriteOutcomes(Len(mappings_to_update)) :
           Finish([name |-> "Wiremock.fixed_delay", mappings |-> mappings_to_update,
                   fixedDelayMilliseconds |-> Num(300)],
                  driver_fixed_delay(Start, mappings_to_update, Num(300), oks))

\* The mappings a caller hands to populate: dicts with no id yet.
NewMappings ==
    {[request |-> Map(rq), response |-> Map(RespPlain)] : rq \in Requests}
PopulateArgs ==
    {List(ms) : ms \in SeqsUpTo(NewMappings, MaxMappings)} \cup {Map(EmptyDict)}

DriverPopulate ==
    /\ op = IdleOp
    /\ \E mappings_to_add \in PopulateArgs :
        \E oks \in WriteOutcomes(IF mappings_to_add.t = "list"
                                 THEN Len(mappings_to_add.v) ELSE 0) :
           Finish([name |-> "Wiremock.populate", mappings |-> mappings_to_add],
                  populate(Start, mappings_to_add, oks))

Next ==
    \/ UpdateAllMappingsStatusCodeAndBody
    \/ UpdateMappingsFault
    \/ FixedDelay
    \/ DeleteMappings
    \/ UpdateMappingsStatusCode
    \/ ChunkedDribbleDelay
    \/ Up
    \/ DriverUpdateFault
    \/ DriverUpdateStatusCodeAndBody
    \/ DriverFixedDelay
    \/ DriverPopulate

Spec == InitMain /\ [][Next]_vars

(***************************************************************************)
(* What the claims speak of.                                               *)
(***************************************************************************)
AllOk(calls) == \A i \in 1..Len(calls) : calls[i].ok
Response(m) == m["response"].v
IdsOf(ms) == [i \in 1..Len(ms) |-> ms[i]["id"]]
GetCall == Call("GET", None, TRUE)

\* A response field that is absent, or present as null.
Absent(m, key) == key \notin DOMAIN Response(m) \/ Response(m)[key] = None

\* A response field that is present with the given value.
HasField(m, key, val) == key \in DOMAIN Response(m) /\ Response(m)[key] = val

\* An empty result: None or the empty list.
EmptyResult(r) == r = None \/ r = EmptyList

HasBothKeys(f) == "request" \in DOMAIN f /\ "metadata" \in DOMAIN f

\* The sub-structure of a mapping a filter description is resolved against,
\* and the filter applied to it.
SubStructure(f) == IF "metadata" \in DOMAIN f THEN "metadata" ELSE "request"
SubFilter(f) ==
    IF "request" \in DOMAIN f THEN f["request"].v
    ELSE IF "metadata" \in DOMAIN f THEN f["metadata"].v
    ELSE f
Resolves(f, m) ==
    /\ SubStructure(f) \in DOMAIN m
    /\ SubMapping(SubFilter(f), m[SubStructure(f)].v)

\* The decimal numeral of a three-digit number, as a str.
DigitChar == <<"0", "1", "2", "3", "4", "5", "6", "7", "8", "9">>
Numeral(n) ==
    Str(<<DigitChar[(n \div 100) + 1], DigitChar[((n \div 10) % 10) + 1],
          DigitChar[(n % 10) + 1]>>)

\* A status code that is an integer in [100, 599], given as an int or as its
\* numeral.
StatusCodeInRange(x) ==
    \E n \in MinStatus..MaxStatus : x = Num(n) \/ x = Numeral(n)

InvalidFaultCall ==
    /\ op.name \in {"update_mappings_fault", "Wiremock.update_fault"}
    /\ op.fault \notin AVAILABLE_FAULTS

InvalidStatusCall ==
    /\ op.name \in {"update_all_mappings_status_code_and_body",
                    "Wiremock.update_status_code_and_body"}
    /\ ~StatusCodeInRange(op.status_code)

(***************************************************************************)
(* C3.  A filter description with both a `request` and a `metadata` key    *)
(* always yields the InvalidFilter error (ValueError) from                 *)
(* _filter_mappings, with no mapping fetched or written; a description     *)
(* with one of the keys is resolved against that sub-structure, one with   *)
(* neither as a request filter.  Stated on fixed_delay with one filter,    *)
(* whose result is then the ids of the mappings the filter resolves to.    *)
(***************************************************************************)
C3_FilterDescription ==
    (op.name = "fixed_delay" /\ Len(op.filter) = 1 /\ AllOk(http))
        => LET f == op.filter[1]
           IN IF HasBothKeys(f)
              THEN result = Raise("ValueError") /\ http = <<>> /\ server = before
              ELSE /\ result.t = "list"
                   /\ \A i \in 1..Len(before) :
                         InList(before[i]["id"], result.v) <=> Resolves(f, before[i])

\* The part of C3 the code does satisfy: a first description with both keys
\* ends either caller of _filter_mappings with ValueError, and nothing was
\* fetched or written.
C3_BothKeysRejected ==
    (op.name \in {"fixed_delay", "update_mappings_fault"}
       /\ Len(op.filter) > 0 /\ HasBothKeys(op.filter[1]))
        => result = Raise("ValueError") /\ http = <<>> /\ server = before

(***************************************************************************)
(* C4.  Validation failure means zero writes: update_mappings_fault /      *)
(* update_fault with a fault kind outside AVAILABLE_FAULTS, and            *)
(* update_all_mappings_status_code_and_body / update_status_code_and_body  *)
(* with a status code that is not an integer in [100,599], issue no write, *)
(* leave every mapping on the server unchanged and return an empty result. *)
(***************************************************************************)
C4_ValidationFailureZeroWrites ==
    (InvalidFaultCall \/ InvalidStatusCall)
        => NumWrites(http) = 0 /\ server = before /\ EmptyResult(result)

\* The part of C4 the code does satisfy: no write and an unchanged server in
\* all four operations, and an empty result from the three that reach their
\* validation.
C4_ZeroWritesOnInvalidInput ==
    (InvalidFaultCall \/ InvalidStatusCall)
        => /\ NumWrites(http) = 0
           /\ server = before
           /\ op.name # "update_mappings_fault" => EmptyResult(result)

(***************************************************************************)
(* C5.  As claimed: an invalid fault kind (update_mappings_fault) or an    *)
(* invalid status code (update_all_mappings_status_code_and_body) is       *)
(* rejected before any network call: no HTTP call of any kind, neither the *)
(* listing fetch nor a write, is issued.                                   *)
(***************************************************************************)
RejectedCall ==
    \/ op.name = "update_mappings_fault" /\ op.fault \notin AVAILABLE_FAULTS
    \/ /\ op.name = "update_all_mappings_status_code_and_body"
       /\ ~StatusCodeInRange(op.status_code)

StatusAndBodyCall ==
    /\ op.name = "update_all_mappings_status_code_and_body"
    /\ op.cfg_ok
    /\ StatusCodeInRange(op.status_code)
    /\ AllOk(http)

C6_BodyStringApplied ==
    (StatusAndBodyCall /\ op.body.t = "str" /\ op.body_file_name = None)
        => /\ result = List(IdsOf(before))
           /\ \A i \in 1..Len(server) :
                 /\ HasField(server[i], "status", op.status_code)
                 /\ HasField(server[i], "body", op.body)
                 /\ Absent(server[i], "bodyFileName")

(***************************************************************************)
(* C6, amended.  With a valid status code, when every write succeeds,      *)
(* every mapping ends with response.status the given code and the returned *)
(* list is the ids of all mappings in listing order.  With a non-empty     *)
(* body_file_name, bodyFileName is it and body is emptied; otherwise with  *)
(* a NON-EMPTY body string, body is it and bodyFileName is emptied;        *)
(* otherwise (no body, or the empty string) body and bodyFileName stay as  *)
(* they were.  Every other field of every mapping is as it was.            *)
(***************************************************************************)
BodyKeys == {"status", "body", "bodyFileName"}
SameExcept(m, m0, keys) ==
    /\ m["id"] = m0["id"]
    /\ m["request"] = m0["request"]
    /\ DOMAIN m = DOMAIN m0
    /\ (DOMAIN Response(m)) \ keys = (DOMAIN Response(m0)) \ keys
    /\ \A k \in (DOMAIN Response(m)) \ keys : Response(m)[k] = Response(m0)[k]
SameField(m, m0, key) ==
    /\ key \in DOMAIN Response(m) <=> key \in DOMAIN Response(m0)
    /\ key \in DOMAIN Response(m) => Response(m)[key] = Response(m0)[key]

C6_StatusAndBody ==
    StatusAndBodyCall
        => /\ result = List(IdsOf(before))
           /\ Len(server) = Len(before)
           /\ \A i \in 1..Len(server) :
                 /\ SameExcept(server[i], before[i], BodyKeys)
                 /\ HasField(server[i], "status", op.status_code)
                 /\ IF op.body_file_name.t = "str" /\ Len(op.body_file_name.v) > 0
                    THEN /\ HasField(server[i], "bodyFileName", op.body_file_name)
                         /\ HasField(server[i], "body", None)
                    ELSE IF op.body.t = "str" /\ Len(op.body.v) > 0
                    THEN /\ HasField(server[i], "body", op.body)
                         /\ HasField(server[i], "bodyFileName", None)
                    ELSE /\ SameField(server[i], before[i], "body")
                         /\ SameField(server[i], before[i], "bodyFileName")

\* A body string replaces a body file on one mapping and a body on another.
C6_Witness ==
    /\ StatusAndBodyCall
    /\ op.status_code = Str(<<"4", "0", "4">>)
    /\ op.body = Str("b")
    /\ op.body_file_name = None
    /\ Len(before) = MaxMappings
    /\ \E i \in 1..Len(before) : ~Absent(before[i], "bodyFileName")
    /\ \E i \in 1..Len(before) : ~Absent(before[i], "body")
    /\ \A i \in 1..Len(server) : Response(server[i])["body"] = Str("b")
    /\ result = List(IdsOf(before))

(***************************************************************************)
(* C7.  As claimed: after `up`, when every call succeeded, every mapping   *)
(* whose request block equals one of the filters has none of               *)
(* fixedDelayMilliseconds, delayDistribution, chunkedDribbleDelay in its   *)
(* response and is otherwise as it was; mappings matched by no filter are  *)
(* unchanged.                                                              *)
(***************************************************************************)
DelayKeys == {"fixedDelayMilliseconds", "delayDistribution", "chunkedDribbleDelay"}
Cleared(m, m0) ==
    /\ DOMAIN Response(m) \cap DelayKeys = {}
    /\ SameExcept(m, m0, DelayKeys)
Targeted(m) == \E k \in 1..Len(op.filter) : m["request"] = op.filter[k]

FirstTargeted(i) ==
    /\ Targeted(before[i])
    /\ \A j \in 1..(i - 1) : before[j]["request"] # before[i]["request"]
WrittenOk(id) == \E c \in 1..Len(http) : http[c] = Call("PUT", id, TRUE)
Hits(filter) == SelectSeq(filter, LAMBDA f : \E i \in 1..Len(before) :
                                                before[i]["request"] = f)
FirstId(f) ==
    before[CHOOSE i \in 1..Len(before) :
              /\ before[i]["request"] = f
              /\ \A j \in 1..(i - 1) : before[j]["request"] # f]["id"]

C8_FixedDelayEndToEnd ==
    (/\ op.name = "fixed_delay"
     /\ Len(op.filter) > 0
     /\ \A k \in 1..Len(op.filter) : ~HasBothKeys(op.filter[k])
     /\ AllOk(http))
        => /\ result.t = "list"
           /\ \A i \in 1..Len(before) :
                 (\E k \in 1..Len(op.filter) : Resolves(op.filter[k], before[i]))
                     => /\ i \in 1..Len(server)
                        /\ "fixedDelayMilliseconds" \in DOMAIN Response(server[i])
                        /\ Response(server[i])["fixedDelayMilliseconds"] = Num(300)
                        /\ Absent(server[i], "delayDistribution")
           /\ (before = <<MappingOf(1, ReqA, RespPlain)>> /\ op.filter = <<ReqA>>)
                 => result = List(<<Num(1)>>)

\* What does hold, one level down: Wiremock.fixed_delay, handed mappings
\* taken from the listing, sets the delay on each one whose write succeeds
\* and returns their ids.
C8_DriverFixedDelay ==
    op.name = "Wiremock.fixed_delay"
        => /\ Len(server) = Len(before)
           /\ \A i \in 1..Len(server) :
                 IF WrittenOk(before[i]["id"])
                 THEN /\ HasField(server[i], "fixedDelayMilliseconds", Num(300))
                      /\ HasField(server[i], "delayDistribution", None)
                      /\ SameExcept(server[i], before[i],
                                    {"fixedDelayMilliseconds", "delayDistribution"})
                 ELSE server[i] = before[i]
           /\ result = List(SelectSeq(IdsOf(op.mappings), WrittenOk))

(***************************************************************************)
(* C9.  A chunked-dribble delay specification that lacks numberOfChunks or *)
(* lacks totalDuration is rejected before any fetch: chunked_dribble_delay *)
(* issues no listing call and no write, leaves the server unchanged, and   *)
(* returns None for every target.                                          *)
(***************************************************************************)
LacksKey(spec) ==
    /\ spec.t = "map"
    /\ \/ "numberOfChunks" \notin DOMAIN spec.v
       \/ "totalDuration" \notin DOMAIN spec.v

C9_ChunkedSpecRejected ==
    (op.name = "chunked_dribble_delay" /\ LacksKey(op.chunkedDribbleDelay))
        => /\ http = <<>>
           /\ server = before
           /\ result = List([k \in 1..Len(op.filter) |-> None])

\* totalDuration is missing, and the first target is on the server.
C9_Witness ==
    /\ op.name = "chunked_dribble_delay"
    /\ op.chunkedDribbleDelay = Map([numberOfChunks |-> Num(5)])
    /\ Len(op.filter) = MaxFilters
    /\ \E i \in 1..Len(before) : before[i]["request"] = op.filter[1]
    /\ http = <<>>
    /\ server = before
    /\ result = List([k \in 1..MaxFilters |-> None])

(***************************************************************************)
(* C10.  Per-target misses are non-fatal in delete_mappings,               *)
(* update_mappings_status_code and up: the operation ends without error; a *)
(* filter that matches no mapping causes no write; every filter that       *)
(* matches a mapping is still processed (a write for its mapping is        *)
(* issued); a list none of whose filters matches returns the empty list.   *)
(***************************************************************************)
BatchCall ==
    \/ op.name = "up"
    \/ op.name = "delete_mappings" /\ op.cfg_ok
    \/ /\ op.name = "update_mappings_status_code"
       /\ op.cfg_ok
       /\ op.status_code = Str(<<"4", "0", "4">>)

WriteFor(id) == \E c \in 1..Len(http) : http[c].verb # "GET" /\ http[c].id = id

C10_MissesAreNonFatal ==
    (BatchCall /\ Len(op.filter) > 0)
        => /\ result.t # "raise"
           /\ \A k \in 1..Len(op.filter) :
                 Len(Hits(<<op.filter[k]>>)) = 1 => WriteFor(FirstId(op.filter[k]))
           /\ NumWrites(http) <= Len(Hits(op.filter))
           /\ Hits(op.filter) = <<>> => result = EmptyList

\* What does hold: `up` skips the filters that match nothing and processes
\* the others.
C10_UpSkipsMisses ==
    (op.name = "up" /\ Len(op.filter) > 0)
        => /\ result.t = "list"
           /\ \A k \in 1..Len(op.filter) :
                 Len(Hits(<<op.filter[k]>>)) = 1 => WriteFor(FirstId(op.filter[k]))
           /\ NumWrites(http) = Len(Hits(op.filter))
           /\ Len(result.v) = Len(Hits(op.filter))
           /\ Hits(op.filter) = <<>> => result = EmptyList

(***************************************************************************)
(* C11.  Filter resolution: filter_mappings(f, strict, limit) returns, in  *)
(* listing order, the mappings whose request block satisfies the chosen    *)
(* predicate (strict or recursive), stopping once `limit` matches are      *)
(* collected when limit > 0; filter_mapping(f, strict) returns the first   *)
(* such mapping, and None, without error, when no mapping matches.         *)
(***************************************************************************)
Satisfies(strict, request, f) ==
    IF strict THEN SubMapping(f, request) ELSE RecursiveHolds(request, f)
Matching(strict, f) ==
    SelectSeq(FilterListing(fnode),
              LAMBDA m : Satisfies(strict, m["request"].v, f))
UpToLimit(ms, limit) ==
    IF limit > 0 /\ Len(ms) > limit THEN SubSeq(ms, 1, limit) ELSE ms
AsMaps(ms) == [i \in 1..Len(ms) |-> Map(ms[i])]

C11_FilterResolution ==
    /\ (fcall.fn = "filter_mappings" /\ ~fcall.wrap)
          => fout = List(AsMaps(UpToLimit(Matching(fcall.strict, ffilter),
                                          fcall.limit)))
    /\ (fcall.fn = "filter_mapping" /\ ~fcall.wrap)
          => fout = IF Matching(fcall.strict, ffilter) = <<>> THEN None
                    ELSE Map(Matching(fcall.strict, ffilter)[1])

\* What does hold.  In strict mode filter_mappings returns what C11 says, and
\* filter_mapping returns None when nothing matches; when something matches
\* it ends in IndexError.
C11_StrictResolution ==
    /\ (fcall.fn = "filter_mappings" /\ ~fcall.wrap /\ fcall.strict)
          => fout = List(AsMaps(UpToLimit(Matching(TRUE, ffilter), fcall.limit)))
    /\ (fcall.fn = "filter_mapping" /\ ~fcall.wrap /\ fcall.strict)
          => fout = IF Matching(TRUE, ffilter) = <<>> THEN None
                    ELSE Raise("IndexError")

\* In recursive mode the predicate is applied to the whole mapping, not to
\* its request block: a filter on the request's keys matches nothing unless
\* it is empty or nested under the key "request".
C11_RecursiveAgainstWholeMapping ==
    (fcall.fn = "filter_mappings" /\ ~fcall.wrap /\ ~fcall.strict /\ ffilter # EmptyDict)
        => fout = EmptyList

(***************************************************************************)
(* C12.  Returned id lists contain only successes: whenever fixed_delay,   *)
(* up, delete_mappings, update_fault, update_status_code_and_body or       *)
(* populate returns a list, under any pattern of failed write calls, every *)
(* entry of the list is the id of a mapping whose write call (replace,     *)
(* delete or create) succeeded; a failed write contributes no entry.       *)
(***************************************************************************)
IdListOps ==
    {"fixed_delay", "up", "delete_mappings", "update_mappings_fault",
     "update_all_mappings_status_code_and_body", "Wiremock.fixed_delay",
     "Wiremock.update_fault", "Wiremock.update_status_code_and_body",
     "Wiremock.populate"}
Succeeded(id) ==
    \E c \in 1..Len(http) : http[c].verb # "GET" /\ http[c].ok /\ http[c].id = id
OnlySuccesses ==
    result.t = "list" => \A k \in 1..Len(result.v) : Succeeded(result.v[k])

C12_IdListsHoldOnlySuccesses == op.name \in IdListOps => OnlySuccesses

\* What does hold: every operation but `up` returns only the ids whose write
\* succeeded (delete_mappings returns no list at all, see C10).
C12_OnlySuccessesButUp == op.name \in IdListOps \ {"up"} => OnlySuccesses

\* `up` returns the id of every first match, its write failed or not.
C12_UpReturnsFailedIds ==
    op.name = "up"
        => /\ result.t = "list"
           /\ \A k \in 1..Len(result.v) : WriteFor(result.v[k])
           /\ Len(result.v) = NumWrites(http)

(***************************************************************************)
(* C13.  Write failure aborts the batch where the write result is checked: *)
(* in Wiremock.update_fault, update_status_code_and_body and populate,     *)
(* called with valid arguments, once the write of the k-th target fails no *)
(* write is issued for a later target and the call returns None, not a     *)
(* partial id list, while the writes of targets 1..k-1 stay applied on the *)
(* server and targets k.. are as they were; with no failure one write per  *)
(* target is issued and the ids are returned.  Wiremock.fixed_delay goes   *)
(* on past a failed write: it issues one write for every target, in        *)
(* order.                                                                  *)
(***************************************************************************)
AbortingCall ==
    \/ op.name = "Wiremock.update_fault" /\ op.fault \in AVAILABLE_FAULTS
    \/ /\ op.name = "Wiremock.update_status_code_and_body"
       /\ StatusCodeInRange(op.status_code)
    \/ op.name = "Wiremock.populate" /\ op.mappings.t = "list"

Targets == IF op.name = "Wiremock.populate" THEN op.mappings.v ELSE op.mappings

\* The number of targets written with success before the first failure.
Applied ==
    IF AllOk(http) THEN Len(http)
    ELSE (CHOOSE c \in 1..Len(http) : ~http[c].ok /\ \A d \in 1..(c - 1) : http[d].ok) - 1

\* The stored mapping with the id of target j (replace operations).
Stored(j) ==
    server[CHOOSE i \in 1..Len(server) : server[i]["id"] = Targets[j]["id"]]

AppliedTo(j) ==
    IF op.name = "Wiremock.update_fault"
    THEN /\ HasField(Stored(j), "fault", Str(op.fault))
         /\ SameExcept(Stored(j), Targets[j], {"fault"})
    ELSE IF op.name = "Wiremock.update_status_code_and_body"
    THEN /\ HasField(Stored(j), "status", op.status_code)
         /\ SameExcept(Stored(j), Targets[j], BodyKeys)
    ELSE /\ server[Len(before) + j]["request"] = Targets[j]["request"]
         /\ server[Len(before) + j]["response"] = Targets[j]["response"]
         /\ server[Len(before) + j]["id"] = http[j].id

C13_WriteFailureAbortsBatch ==
    /\ AbortingCall
          => /\ NumWrites(http) = Len(http)
             /\ Len(http) = IF AllOk(http) THEN Len(Targets) ELSE Applied + 1
             /\ Len(http) <= Len(Targets)
             /\ result = IF AllOk(http)
                         THEN List([j \in 1..Len(http) |-> http[j].id])
                         ELSE None
             /\ \A j \in 1..Applied : AppliedTo(j)
             /\ IF op.name = "Wiremock.populate"
                THEN /\ Len(server) = Len(before) + Applied
                     /\ SubSeq(server, 1, Len(before)) = before
                ELSE /\ Len(server) = Len(before)
                     /\ \A i \in 1..Len(server) :
                           (\A j \in 1..Applied : Targets[j]["id"] # before[i]["id"])
                               => server[i] = before[i]
    /\ op.name = "Wiremock.fixed_delay"
          => /\ Len(http) = Len(op.mappings)
             /\ \A j \in 1..Len(http) :
                   http[j].verb = "PUT" /\ http[j].id = op.mappings[j]["id"]

\* The first of two targets fails: one write, no id list, nothing changed.
C13_Witness ==
    /\ op.name = "Wiremock.update_fault"
    /\ op.fault \in AVAILABLE_FAULTS
    /\ Len(op.mappings) = 2
    /\ Len(http) = 1
    /\ ~http[1].ok
    /\ result = None
    /\ server = before

=============================================================================
